---------------------------- MODULE Spec2Model ----------------------------
(***************************************************************************)
(* The three comment-repair scripts of the repository                      *)
(*   src/fix_all_syntax.py      (fix_syntax_errors, process_file, main)    *)
(*   src/fix_final_syntax.py    (fix_all_patterns,  process_file, main)    *)
(*   src/fix_string_literals.py (fix_string_literals, process_file, main)  *)
(*                                                                         *)
(* A text is a sequence of tokens.  Every token is the piece of source     *)
(* text it stands for, so the concatenation of the tokens of a text is the *)
(* text itself.  A token is one character, the two slashes of a comment,   *)
(* or a word (a run of \w characters; two adjacent word tokens are one     *)
(* longer word, as they are for [\w]+).  All characters of a token lie in  *)
(* the same character classes, so a class contains a token or it does not. *)
(* The marker comment of the scripts,                                      *)
(*   // ! HARDCODED: Should use design tokens                              *)
(* is the fourteen tokens MARKER.                                          *)
(***************************************************************************)
EXTENDS Integers, Sequences, FiniteSets, TLC

(***************************************************************************)
(* Tokens and the character classes of the regular expressions.            *)
(***************************************************************************)
SP == " "
NL == "\n"
SQ == "'"
DQ == "\""

\* "// ! HARDCODED", the part of the marker Pattern 7 of fix_all_patterns names
PREFIX == << "//", SP, "!", SP, "HARDCODED" >>
\* "// ! HARDCODED: Should use design tokens"
MARKER == PREFIX \o << ":", SP, "Should", SP, "use", SP, "design", SP, "tokens" >>

\* [\w]
Word == { "x", "colors", "setSearchQuery", "HARDCODED", "Should", "use", "design",
          "tokens" }

Alphabet ==
    Word \cup { SP, NL, SQ, DQ, "#", ",", "{", "}", ":", "?", "[", "]", "=", "(", ")",
                ";", "//", "!" }

\* \s
WS == { SP, NL }
\* ['\"]
Quote == { SQ, DQ }
\* [\w#]
WordHash == Word \cup { "#" }
\* [^'\"]
NotQuote == Alphabet \ Quote
\* [^']
NotSQ == Alphabet \ { SQ }
\* [^:]
NotColon == Alphabet \ { ":" }

(***************************************************************************)
(* Regular expressions.  Every pattern of the scripts is a concatenation   *)
(* of literal text and quantified character classes, some of them inside a *)
(* capture group.  An element is a literal (lit) or a class with a         *)
(* quantifier; grp is the number of the capture group the element lies in  *)
(* (0: none).                                                              *)
(***************************************************************************)
Elem(cls, min, many, lazy) ==
    << [cls |-> cls, min |-> min, many |-> many, lazy |-> lazy, grp |-> 0,
        lit |-> << >>] >>

One(cls)      == Elem(cls, 1, FALSE, FALSE)
Opt(cls)      == Elem(cls, 0, FALSE, FALSE)
Star(cls)     == Elem(cls, 0, TRUE, FALSE)
Plus(cls)     == Elem(cls, 1, TRUE, FALSE)
LazyStar(cls) == Elem(cls, 0, TRUE, TRUE)
\* a literal piece of a pattern
Lits(toks) ==
    << [cls |-> {}, min |-> 1, many |-> FALSE, lazy |-> FALSE, grp |-> 0,
        lit |-> toks] >>
Lit(tok)      == Lits(<<tok>>)
MarkerRe      == Lits(MARKER)

\* ( ... ) as capture group n
Group(n, elems) == [ j \in 1..Len(elems) |-> [ elems[j] EXCEPT !.grp = n ] ]

\* a literal piece of a replacement template, and a group reference \n
Text(toks) == << [ref |-> 0, lit |-> toks] >>
Ref(n)     == << [ref |-> n, lit |-> << >>] >>
MarkerText == Text(MARKER)

Min(a, b) == IF a <= b THEN a ELSE b
\* the element of a set of one element: Only({ e(x) : x \in { d } }) is e(d),
\* with d evaluated once
Only(S) == CHOOSE x \in S : TRUE
\* the least element of a non-empty set of numbers
Least(S) == CHOOSE x \in S : \A y \in S : x <= y

\* whether sub occurs in t at position p
OccursAt(t, p, sub) ==
    /\ p + Len(sub) - 1 <= Len(t)
    /\ \A j \in 1..Len(sub) : t[p + j - 1] = sub[j]

\* the number of consecutive tokens of t from position p on that lie in cls
RunLen(t, p, cls) ==
    Only({ IF out = {} THEN Len(t) - p + 1 ELSE Least(out) - p
           : out \in { { q \in p..Len(t) : t[q] \notin cls } } })

(***************************************************************************)
(* The backtracking matcher of Python's re: MatchAt(t, pat, i, p) matches  *)
(* the elements i.. of pat at position p of t.  Element i takes the first  *)
(* number of tokens, in the order of its quantifier, with which the rest   *)
(* of the pattern matches: a greedy quantifier tries the longest run first *)
(* and gives tokens back, a lazy one tries the shortest first and takes    *)
(* more.  The result is the sequence of the positions where the elements   *)
(* i.. start, followed by the position after the match; << >> when there   *)
(* is no match.                                                            *)
(***************************************************************************)
\* the numbers of tokens element e can take at position p of t
Counts(t, e, p) ==
    IF e.lit # << >>
    THEN IF OccursAt(t, p, e.lit) THEN { Len(e.lit) } ELSE { }
    ELSE e.min..(IF e.many THEN RunLen(t, p, e.cls) ELSE Min(RunLen(t, p, e.cls), 1))

RECURSIVE MatchAt(_, _, _, _)
MatchAt(t, pat, i, p) ==
    IF i > Len(pat) THEN <<p>>
    ELSE Only({ IF good = { } THEN << >>
                ELSE <<p>> \o (CHOOSE r \in good :
                                  \A o \in good : IF pat[i].lazy THEN r[1] <= o[1]
                                                  ELSE r[1] >= o[1])[2]
                : good \in { { r \in { << k, Only({ MatchAt(t, pat, i + 1, p2)
                                                    : p2 \in { p + k } }) >>
                                       : k \in Counts(t, pat[i], p) }
                               : r[2] # << >> } } })

\* the text capture group n matched, given the element boundaries b
RECURSIVE GroupText(_, _, _, _, _)
GroupText(t, pat, b, n, i) ==
    IF i > Len(pat) THEN << >>
    ELSE (IF pat[i].grp = n THEN SubSeq(t, b[i], b[i + 1] - 1) ELSE << >>)
         \o GroupText(t, pat, b, n, i + 1)

\* the replacement template expanded for one match
RECURSIVE Expand(_, _, _, _, _)
Expand(t, pat, repl, b, j) ==
    IF j > Len(repl) THEN << >>
    ELSE (IF repl[j].ref = 0 THEN repl[j].lit
          ELSE GroupText(t, pat, b, repl[j].ref, 1))
         \o Expand(t, pat, repl, b, j + 1)

(***************************************************************************)
(* re.sub(pattern, replacement, content): the leftmost match, then the     *)
(* next one from where it ended, each replaced by the expanded template.   *)
(* No pattern of the scripts matches the empty string.                     *)
(***************************************************************************)
\* the positions of t where the pattern matches
MatchStarts(rule, t) == { q \in 1..Len(t) : MatchAt(t, rule.pat, 1, q) # << >> }

RECURSIVE SubFrom(_, _, _, _)
SubFrom(rule, t, p, starts) ==
    IF \A q \in starts : q < p THEN SubSeq(t, p, Len(t))
    ELSE Only({ SubSeq(t, p, b[1] - 1) \o Expand(t, rule.pat, rule.repl, b, 1)
                \o Only({ SubFrom(rule, t, p2, starts) : p2 \in { b[Len(b)] } })
                : b \in { MatchAt(t, rule.pat, 1, Least({ q \in starts : q >= p })) } })

Sub(rule, t) ==
    Only({ SubFrom(r, t, 1, starts) : <<r, starts>> \in { <<rule, MatchStarts(rule, t)>> } })

Rule(pat, repl) == [pat |-> pat, repl |-> repl]

\* "\n    " of the replacement templates
NlIndent == Text(<<NL, SP, SP, SP, SP>>)

(***************************************************************************)
(* src/fix_all_syntax.py: the patterns of fix_syntax_errors.               *)
(***************************************************************************)
\* ['\"][\w#]+['\"]
QuotedWord == One(Quote) \o Plus(WordHash) \o One(Quote)
\* ([\w]+):\s*(['\"][\w#]+['\"])\s*<marker>,   with groups g and g+1
PropWord(g) ==
    Group(g, Plus(Word)) \o Lit(":") \o Star(WS) \o Group(g + 1, QuotedWord)
    \o Star(WS) \o MarkerRe \o Lit(",")
\* \g: \g+1, <marker>
PropText(g) == Ref(g) \o Text(<<":", SP>>) \o Ref(g + 1) \o Text(<<",", SP>>) \o MarkerText

SyntaxPattern1 ==
    Rule(Group(1, Plus(WS)) \o PropWord(2),
         Ref(1) \o PropText(2))

SyntaxPattern2 ==
    Rule(Lit(",") \o Star(WS) \o PropWord(1),
         Text(<<",">>) \o NlIndent \o PropText(1))

SyntaxPattern3 ==
    Rule(Lit("{") \o Star(WS) \o PropWord(1) \o Star(WS) \o PropWord(3),
         Text(<<"{">>) \o NlIndent \o PropText(1) \o NlIndent \o PropText(3))

SyntaxPattern4 ==
    Rule(MarkerRe \o Star(WS) \o MarkerRe, MarkerText)


(***************************************************************************)
(* str methods used by the line-by-line pass of fix_syntax_errors.         *)
(***************************************************************************)
\* content.splitlines() in the place of content.split('\n'): no last empty line
Split_splitlines(t) ==
    LET nls == { p \in 1..Len(t) : t[p] = NL }
        n   == Cardinality(nls)
        brk(j) == IF j = 0 THEN 0
                  ELSE IF j > n THEN Len(t) + 1
                  ELSE CHOOSE p \in nls : Cardinality({ q \in nls : q < p }) = j - 1
        m   == IF t = << >> \/ t[Len(t)] = NL THEN n ELSE n + 1
    IN  [ j \in 1..m |-> SubSeq(t, brk(j - 1) + 1, brk(j) - 1) ]

\* content.split('\n'): the lines, at least one
Split(t) ==
    LET nls == { p \in 1..Len(t) : t[p] = NL }
        n   == Cardinality(nls)
        \* the position of the j-th line break; 0 and Len(t) + 1 bound the text
        brk(j) == IF j = 0 THEN 0
                  ELSE IF j > n THEN Len(t) + 1
                  ELSE CHOOSE p \in nls : Cardinality({ q \in nls : q < p }) = j - 1
    IN  [ j \in 1..(n + 1) |-> SubSeq(t, brk(j - 1) + 1, brk(j) - 1) ]

\* '\n'.join(lines)
RECURSIVE JoinFrom(_, _)
JoinFrom(lines, j) ==
    IF j > Len(lines) THEN << >>
    ELSE (IF j > 1 THEN <<NL>> ELSE << >>) \o lines[j] \o JoinFrom(lines, j + 1)

Join(lines) == JoinFrom(lines, 1)

\* sub in t
Contains(t, sub) == \E p \in 1..Len(t) : OccursAt(t, p, sub)

\* t.strip()
Strip(t) ==
    Only({ IF ink = {} THEN << >>
           ELSE SubSeq(t, Least(ink), CHOOSE p \in ink : \A q \in ink : q <= p)
           : ink \in { { p \in 1..Len(t) : t[p] \notin WS } } })

\* t.endswith(tok)
EndsWith(t, tok) == t # << >> /\ t[Len(t)] = tok

\* t.replace(old, new): every occurrence of old, from the left
RECURSIVE ReplaceFrom(_, _, _, _)
ReplaceFrom(t, p, old, new) ==
    IF \A q \in p..Len(t) : ~OccursAt(t, q, old) THEN SubSeq(t, p, Len(t))
    ELSE Only({ SubSeq(t, p, q - 1) \o new
                \o Only({ ReplaceFrom(t, p2, old, new) : p2 \in { q + Len(old) } })
                : q \in { Least({ r \in p..Len(t) : OccursAt(t, r, old) }) } })

Replace(t, old, new) == ReplaceFrom(t, 1, old, new)

\* the loop body with the test for a final ',' only
FixLine_commaOnly(line) ==
    IF Contains(line, MARKER) /\ ~EndsWith(Strip(line), ",")
    THEN Replace(line, MARKER, <<",", SP>> \o MARKER)
    ELSE line

\* the body of the loop over the lines (Pattern 5)
FixLine(line) ==
    IF /\ Contains(line, MARKER)
       /\ ~EndsWith(Strip(line), ",")
       /\ ~EndsWith(Strip(line), "{")
       /\ ~EndsWith(Strip(line), "}")
    THEN Replace(line, MARKER, <<",", SP>> \o MARKER)
    ELSE line

\* Pattern 5 of fix_syntax_errors: split, fix every line, join
LinePass(content) ==
    Only({ Join([ j \in 1..Len(lines) |-> FixLine(lines[j]) ])
           : lines \in { Split(content) } })

(***************************************************************************)
(* src/fix_final_syntax.py: the patterns of fix_all_patterns.              *)
(***************************************************************************)
\* ['\"][^'\"]+['\"]
QuotedAny == One(Quote) \o Plus(NotQuote) \o One(Quote)
\* ([\w]+):\s*(['\"][^'\"]+['\"])\s*<marker>   with groups g and g+1
PropAny(g) ==
    Group(g, Plus(Word)) \o Lit(":") \o Star(WS) \o Group(g + 1, QuotedAny)
    \o Star(WS) \o MarkerRe

FinalPattern1 ==
    Rule(Group(1, Plus(WS)) \o PropAny(2) \o Lit(","),
         Ref(1) \o PropText(2))

FinalPattern2 ==
    Rule(Lit(",") \o Star(WS) \o PropAny(1) \o Lit(",") \o Star(WS)
         \o PropAny(3) \o Lit(","),
         Text(<<",">>) \o NlIndent \o PropText(1) \o NlIndent \o PropText(3))

\* (\s+)([\w]+):\s*\{\s*
ObjectOpen == Group(1, Plus(WS)) \o Group(2, Plus(Word)) \o Lit(":") \o Star(WS)
              \o Lit("{") \o Star(WS)
\* \1\2: {
ObjectOpenText == Ref(1) \o Ref(2) \o Text(<<":", SP, "{">>)

FinalPattern3 ==
    Rule(ObjectOpen \o PropAny(3) \o Lit(",") \o Star(WS) \o PropAny(5) \o Lit(","),
         ObjectOpenText \o NlIndent \o PropText(3) \o NlIndent \o PropText(5))

FinalPattern4 ==
    Rule(ObjectOpen \o PropAny(3) \o Lit(","),
         ObjectOpenText \o NlIndent \o PropText(3))

FinalPattern5 ==
    Rule(Group(1, Plus(WS)) \o PropAny(2) \o Star(WS) \o Lit("}"),
         Ref(1) \o PropText(2) \o Text(<<NL, SP, SP, "}">>))

FinalPattern6 ==
    Rule(MarkerRe \o Star(WS) \o MarkerRe, MarkerText)

\* colors=\{?\['\s*// ! HARDCODED[^']*#([\w]+)'\]\}?
FinalPattern7 ==
    Rule(Lit("colors") \o Lit("=") \o Opt({"{"}) \o Lit("[") \o Lit(SQ) \o Star(WS)
         \o Lits(PREFIX) \o Star(NotSQ) \o Lit("#") \o Group(1, Plus(Word)) \o Lit(SQ)
         \o Lit("]") \o Opt({"}"}),
         Text(<<"colors", "=", "{", "[", SQ, "#">>) \o Ref(1)
         \o Text(<<SQ, "]", "}", SP>>) \o MarkerText)

\* \?([^:]+)<marker>\s*:
FinalPattern8 ==
    Rule(Lit("?") \o Group(1, Plus(NotColon)) \o MarkerRe \o Star(WS) \o Lit(":"),
         Text(<<"?", SP>>) \o Ref(1) \o Text(<<SP, ":">>))

\* setSearchQuery\(''\s*<marker>\)
FinalPattern9 ==
    Rule(Lit("setSearchQuery") \o Lit("(") \o Lit(SQ) \o Lit(SQ) \o Star(WS)
         \o MarkerRe \o Lit(")"),
         Text(<<"setSearchQuery", "(", SQ, SQ, ")">>))

(***************************************************************************)
(* src/fix_string_literals.py: the patterns of fix_string_literals.        *)
(***************************************************************************)
\* '([^']*?)(\s*)<marker>\s*\n\s*([^']*?)'
LiteralPattern1 ==
    Rule(Lit(SQ) \o Group(1, LazyStar(NotSQ)) \o Group(2, Star(WS)) \o MarkerRe
         \o Star(WS) \o Lit(NL) \o Star(WS) \o Group(3, LazyStar(NotSQ)) \o Lit(SQ),
         Text(<<SQ>>) \o Ref(1) \o Text(<<SP>>) \o Ref(3) \o Text(<<SQ, SP>>)
         \o MarkerText)

\* '([^']*?)\s*<marker>([^']*?)'
LiteralPattern2 ==
    Rule(Lit(SQ) \o Group(1, LazyStar(NotSQ)) \o Star(WS) \o MarkerRe
         \o Group(2, LazyStar(NotSQ)) \o Lit(SQ),
         Text(<<SQ>>) \o Ref(1) \o Ref(2) \o Text(<<SQ, SP>>) \o MarkerText)

\* '([^']*?)\n\s*([^']*?)<marker>([^']*?)'
LiteralPattern3 ==
    Rule(Lit(SQ) \o Group(1, LazyStar(NotSQ)) \o Lit(NL) \o Star(WS)
         \o Group(2, LazyStar(NotSQ)) \o MarkerRe \o Group(3, LazyStar(NotSQ))
         \o Lit(SQ),
         Text(<<SQ>>) \o Ref(1) \o Text(<<SP>>) \o Ref(2) \o Ref(3)
         \o Text(<<SQ, SP>>) \o MarkerText)

(***************************************************************************)
(* The three fix functions: the statements of each, in the order written.  *)
(***************************************************************************)
ALL_SYNTAX      == "fix_all_syntax.py"
FINAL_SYNTAX    == "fix_final_syntax.py"
STRING_LITERALS == "fix_string_literals.py"
Scripts == { ALL_SYNTAX, FINAL_SYNTAX, STRING_LITERALS }

SyntaxRules  == << SyntaxPattern1, SyntaxPattern2, SyntaxPattern3, SyntaxPattern4 >>
FinalRules   == << FinalPattern1, FinalPattern2, FinalPattern3, FinalPattern4,
                   FinalPattern5, FinalPattern6, FinalPattern7, FinalPattern8,
                   FinalPattern9 >>
LiteralRules == << LiteralPattern1, LiteralPattern2, LiteralPattern3 >>

\* the number of statements of a script's fix function that assign content
NumSteps(script) ==
    CASE script = ALL_SYNTAX      -> Len(SyntaxRules) + 1
      [] script = FINAL_SYNTAX    -> Len(FinalRules)
      [] script = STRING_LITERALS -> Len(LiteralRules)

\* the k-th of them, applied to the current content
Step(script, k, content) ==
    CASE script = ALL_SYNTAX ->
           IF k <= Len(SyntaxRules) THEN Sub(SyntaxRules[k], content)
           ELSE LinePass(content)
      [] script = FINAL_SYNTAX    -> Sub(FinalRules[k], content)
      [] script = STRING_LITERALS -> Sub(LiteralRules[k], content)

\* the statements k.. of the fix function, each on the result of the one before
RECURSIVE StepsFrom(_, _, _)
StepsFrom(script, k, content) ==
    IF k > NumSteps(script) THEN content
    ELSE Only({ StepsFrom(script, k + 1, next) : next \in { Step(script, k, content) } })

fix_syntax_errors(content)   == StepsFrom(ALL_SYNTAX, 1, content)
fix_all_patterns(content)    == StepsFrom(FINAL_SYNTAX, 1, content)
fix_string_literals(content) == StepsFrom(STRING_LITERALS, 1, content)

Fix(script, content) ==
    CASE script = ALL_SYNTAX      -> fix_syntax_errors(content)
      [] script = FINAL_SYNTAX    -> fix_all_patterns(content)
      [] script = STRING_LITERALS -> fix_string_literals(content)

(***************************************************************************)
(* Bounds of the model.                                                    *)
(***************************************************************************)
\* the length of the file list main walks through
MaxFiles == 2
\* a failed write leaves at most this many tokens of the new text on disk
MaxPartial == 2
\* an argument of a fix function is made of at most this many fragments
MaxFrags == 3

(***************************************************************************)
(* The state: the script that runs, the files on disk, the position of     *)
(* main and process_file and their locals, and what has happened so far.   *)
(***************************************************************************)
VARIABLES
    script,       \* the script that runs
    pc,           \* the statement main, process_file or the fix function is at
    disk,         \* path -> [exists, data]: the files as they are on disk
    idx,          \* main: the index of filepath in the list of files
    fixed_count,  \* main: fixed_count
    content,      \* process_file: original (the text read); the fix function's argument
    fixed,        \* the fix function's local content; process_file: fixed
    step,         \* the next content-assigning statement of the fix function
    retval,       \* what process_file returned to main
    opened,       \* whether this call of process_file opened the file for writing
    raised,       \* whether this call of process_file caught an exception
    disk0,        \* the files as they were when main started
    visited,      \* the paths main's loop has taken, in order
    results,      \* the calls of process_file that returned: [path, ret, err]
    trace,        \* the content after each statement of this call of the fix function
    calls,        \* the traces of the finished calls of the fix function
    nfrags        \* the number of fragments the argument is made of

vars == << script, pc, disk, idx, fixed_count, content, fixed, step, retval, opened,
           raised, disk0, visited, results, trace, calls, nfrags >>

Paths == 1..MaxFiles
\* files_to_fix / all_files: the list main walks through
files == [ j \in 1..MaxFiles |-> j ]

File(data) == [exists |-> TRUE, data |-> data]
NoFile     == [exists |-> FALSE, data |-> << >>]

\* pieces of the texts the model runs the scripts on
PropText1  == << "x", ":", SP, SQ, "x", SQ >>
PropMarked == PropText1 \o <<SP>> \o MARKER
PropBroken == PropMarked \o <<",">>

SyntaxDirty ==
    <<"{", NL, SP>> \o PropBroken \o <<NL, SP>> \o PropMarked \o <<NL, "}">>
FinalDirty ==
    <<SP>> \o PropBroken \o <<NL, SP>> \o PropMarked \o <<SP, "}", NL>>
    \o <<"colors", "=", "[", SQ>> \o MARKER \o <<"#", "x", SQ, "]", NL>>
    \o <<"?", "x", SP>> \o MARKER \o <<":", NL>>
    \o <<"setSearchQuery", "(", SQ, SQ, SP>> \o MARKER \o <<")">>
LiteralDirty ==
    <<SQ, "x", SP>> \o MARKER \o <<NL, SP, "x", SQ>>
Clean == <<SP>> \o PropText1 \o <<",", NL>>

\* the contents a file of the target project may have when the script starts
FileTexts(s) ==
    CASE s = ALL_SYNTAX      -> { Clean, SyntaxDirty }
      [] s = FINAL_SYNTAX    -> { Clean, FinalDirty }
      [] s = STRING_LITERALS -> { Clean, LiteralDirty }

\* fix_all_syntax.py lists its paths itself, and a listed file may not exist;
\* the other two scripts take the paths glob finds
FileStates(s) ==
    { File(d) : d \in FileTexts(s) } \cup (IF s = ALL_SYNTAX THEN { NoFile } ELSE { })

Init ==
    /\ script \in Scripts
    /\ disk \in [ Paths -> FileStates(script) ]
    /\ disk0 = disk
    /\ pc = "main"
    /\ idx = 1
    /\ fixed_count = 0
    /\ content = << >>
    /\ fixed = << >>
    /\ step = 1
    /\ retval = FALSE
    /\ opened = FALSE
    /\ raised = FALSE
    /\ visited = << >>
    /\ results = << >>
    /\ trace = << >>
    /\ calls = << >>
    /\ nfrags = 0

filepath == files[idx]

(***************************************************************************)
(* main: for filepath in files.                                            *)
(***************************************************************************)
\* the next file exists (fix_all_syntax.py checks; glob found it): process_file
MainCall ==
    /\ pc = "main"
    /\ idx <= Len(files)
    /\ script = ALL_SYNTAX => disk[filepath].exists
    /\ visited' = Append(visited, filepath)
    /\ content' = << >>
    /\ fixed' = << >>
    /\ step' = 1
    /\ trace' = << >>
    /\ opened' = FALSE
    /\ raised' = FALSE
    /\ pc' = "read"
    /\ UNCHANGED << script, disk, idx, fixed_count, retval, disk0, results, calls,
                    nfrags >>

\* fix_all_syntax.py: os.path.exists(filepath) is false, "File not found"
MainNotFound ==
    /\ pc = "main"
    /\ idx <= Len(files)
    /\ script = ALL_SYNTAX
    /\ ~disk[filepath].exists
    /\ visited' = Append(visited, filepath)
    /\ idx' = idx + 1
    /\ UNCHANGED << script, pc, disk, fixed_count, content, fixed, step, retval,
                    opened, disk0, results, trace, calls, nfrags, raised >>

\* process_file returned: count it if it returned True, go on with the next file
MainReturn ==
    /\ pc = "ret"
    /\ fixed_count' = IF retval THEN fixed_count + 1 ELSE fixed_count
    /\ results' = Append(results, [path |-> filepath, ret |-> retval, err |-> raised])
    /\ idx' = idx + 1
    /\ pc' = "main"
    /\ UNCHANGED << script, disk, content, fixed, step, retval, opened, disk0,
                    visited, trace, calls, nfrags, raised >>

\* the loop is over: the summary is printed and main returns
MainDone ==
    /\ pc = "main"
    /\ idx > Len(files)
    /\ pc' = "done"
    /\ UNCHANGED << script, disk, idx, fixed_count, content, fixed, step, retval,
                    opened, disk0, visited, results, trace, calls, nfrags, raised >>

(***************************************************************************)
(* process_file.                                                           *)
(***************************************************************************)
\* with open(filepath, 'r', encoding='utf-8') as f: content = f.read();
\* original = content; and the call of the fix function
PfRead ==
    /\ pc = "read"
    /\ content' = disk[filepath].data
    /\ fixed' = disk[filepath].data
    /\ step' = 1
    /\ trace' = << disk[filepath].data >>
    /\ pc' = "fix"
    /\ UNCHANGED << script, disk, idx, fixed_count, retval, opened, disk0, visited,
                    results, calls, nfrags, raised >>

\* open or read raises (the bytes are not UTF-8, the file cannot be read)
PfReadFail ==
    /\ pc = "read"
    /\ raised' = TRUE
    /\ pc' = "except"
    /\ UNCHANGED << script, disk, idx, fixed_count, content, fixed, step, retval,
                    opened, disk0, visited, results, trace, calls, nfrags >>

\* a statement that reads the argument, not the content the statements before left
FixStep_onOriginal ==
    /\ pc = "fix"
    /\ step <= NumSteps(script)
    /\ fixed' = Step(script, step, content)
    /\ step' = step + 1
    /\ trace' = Append(trace, fixed')
    /\ UNCHANGED << script, pc, disk, idx, fixed_count, content, retval, opened,
                    disk0, visited, results, calls, nfrags, raised >>

\* the fix function: its next statement, content = re.sub(..., content)
FixStep ==
    /\ pc = "fix"
    /\ step <= NumSteps(script)
    /\ fixed' = Step(script, step, fixed)
    /\ step' = step + 1
    /\ trace' = Append(trace, fixed')
    /\ UNCHANGED << script, pc, disk, idx, fixed_count, content, retval, opened,
                    disk0, visited, results, calls, nfrags, raised >>

\* process_file without the comparison: it writes whatever the function returned
PfCompare_alwaysWrite ==
    /\ pc = "fix"
    /\ step > NumSteps(script)
    /\ pc' = "open"
    /\ UNCHANGED << script, disk, idx, fixed_count, content, fixed, step, opened,
                    disk0, visited, results, trace, calls, nfrags, raised, retval >>

\* the fix function returns; if original != fixed
PfCompare ==
    /\ pc = "fix"
    /\ step > NumSteps(script)
    /\ IF content # fixed
       THEN pc' = "open" /\ UNCHANGED retval
       ELSE pc' = "ret" /\ retval' = FALSE
    /\ UNCHANGED << script, disk, idx, fixed_count, content, fixed, step, opened,
                    disk0, visited, results, trace, calls, nfrags, raised >>

\* open(filepath, 'w', encoding='utf-8'): the file is truncated
PfOpen ==
    /\ pc = "open"
    /\ disk' = [ disk EXCEPT ![filepath] = File(<< >>) ]
    /\ opened' = TRUE
    /\ pc' = "write"
    /\ UNCHANGED << script, idx, fixed_count, content, fixed, step, retval, disk0,
                    visited, results, trace, calls, nfrags, raised >>

\* open(filepath, 'w') raises (no permission): the file is as it was
PfOpenFail ==
    /\ pc = "open"
    /\ raised' = TRUE
    /\ pc' = "except"
    /\ UNCHANGED << script, disk, idx, fixed_count, content, fixed, step, retval,
                    opened, disk0, visited, results, trace, calls, nfrags >>

\* f.write(fixed) and the close of the with block; "Fixed"; return True
PfWrite ==
    /\ pc = "write"
    /\ disk' = [ disk EXCEPT ![filepath] = File(fixed) ]
    /\ retval' = TRUE
    /\ pc' = "ret"
    /\ UNCHANGED << script, idx, fixed_count, content, fixed, step, opened, disk0,
                    visited, results, trace, calls, nfrags, raised >>

\* f.write or the close raises (the disk is full): part of the text is written
PfWriteFail ==
    /\ pc = "write"
    /\ \E n \in 0..Min(MaxPartial, Len(fixed) - 1) :
          disk' = [ disk EXCEPT ![filepath] = File(SubSeq(fixed, 1, n)) ]
    /\ raised' = TRUE
    /\ pc' = "except"
    /\ UNCHANGED << script, idx, fixed_count, content, fixed, step, retval, opened,
                    disk0, visited, results, trace, calls, nfrags >>

\* process_file without the except clause: the exception ends main
PfExcept_abort ==
    /\ pc = "except"
    /\ pc' = "aborted"
    /\ UNCHANGED << script, disk, idx, fixed_count, content, fixed, step, opened,
                    disk0, visited, results, trace, calls, nfrags, raised, retval >>

\* except Exception as e: "Error processing"; return False
PfExcept ==
    /\ pc = "except"
    /\ retval' = FALSE
    /\ pc' = "ret"
    /\ UNCHANGED << script, disk, idx, fixed_count, content, fixed, step, opened,
                    disk0, visited, results, trace, calls, nfrags, raised >>

Next ==
    \/ MainCall
    \/ MainNotFound
    \/ MainReturn
    \/ MainDone
    \/ PfRead
    \/ PfReadFail
    \/ FixStep
    \/ PfCompare
    \/ PfOpen
    \/ PfOpenFail
    \/ PfWrite
    \/ PfWriteFail
    \/ PfExcept

\* a run of one of the scripts
Spec == Init /\ [][Next]_vars

\* the script is one thread that is never suspended: it takes its next step
FairSpec == Spec /\ WF_vars(Next)

(***************************************************************************)
(* The fix functions on their own: an argument is put together from        *)
(* fragments of the broken code the scripts were written for, the function *)
(* of the script is called on it, and then once more on its own result     *)
(* (the script run a second time on a file it has fixed).                  *)
(***************************************************************************)
\* "x: 'x',": a property with no marker
PropClean  == PropText1 \o <<",">>
\* " x: {"
ObjectText == << SP, "x", ":", SP, "{" >>
\* "colors=['" and "#x']"
ColorsHead == << "colors", "=", "[", SQ >>
ColorsTail == << "#", "x", SQ, "]" >>
\* "?x "
TernaryHead == << "?", "x", SP >>

Fragments(s) ==
    CASE s = ALL_SYNTAX ->
           { MARKER, <<SP>>, <<NL>>, <<",">>, <<"{">>, <<"}">>, PropBroken, PropClean }
      [] s = FINAL_SYNTAX ->
           { MARKER, <<SP>>, <<",">>, <<"}">>, <<":">>, PropBroken, PropMarked,
             ObjectText, ColorsHead, ColorsTail, TernaryHead }
      [] s = STRING_LITERALS ->
           { MARKER, <<SP>>, <<SQ>>, <<SQ, "x", SP>>, <<SP, "x", SQ>>, <<SQ, "x", SQ>>,
             MARKER \o <<NL>>, <<NL>> \o MARKER }

InitFn ==
    /\ script \in Scripts
    /\ disk = [ p \in Paths |-> NoFile ]
    /\ disk0 = disk
    /\ pc = "build"
    /\ idx = 1
    /\ fixed_count = 0
    /\ content = << >>
    /\ fixed = << >>
    /\ step = 1
    /\ retval = FALSE
    /\ opened = FALSE
    /\ raised = FALSE
    /\ visited = << >>
    /\ results = << >>
    /\ trace = << >>
    /\ calls = << >>
    /\ nfrags = 0

\* one more fragment of the argument
Build ==
    /\ pc = "build"
    /\ nfrags < MaxFrags
    /\ \E f \in Fragments(script) : content' = content \o f
    /\ nfrags' = nfrags + 1
    /\ UNCHANGED << script, pc, disk, idx, fixed_count, fixed, step, retval, opened,
                    disk0, visited, results, trace, calls, raised >>

\* fixed = fix_...(content): the call
FnCall ==
    /\ pc = "build"
    /\ fixed' = content
    /\ step' = 1
    /\ trace' = << content >>
    /\ pc' = "fix"
    /\ UNCHANGED << script, disk, idx, fixed_count, content, retval, opened, disk0,
                    visited, results, calls, nfrags, raised >>

\* return content; the function is then called on what it returned
FnReturn ==
    /\ pc = "fix"
    /\ step > NumSteps(script)
    /\ calls' = Append(calls, trace)
    /\ IF calls = << >>
       THEN /\ content' = fixed
            /\ step' = 1
            /\ trace' = << fixed >>
            /\ pc' = "fix"
       ELSE /\ pc' = "returned"
            /\ UNCHANGED << content, step, trace >>
    /\ UNCHANGED << script, disk, idx, fixed_count, fixed, retval, opened, disk0,
                    visited, results, nfrags, raised >>

NextFn ==
    \/ Build
    \/ FnCall
    \/ FixStep
    \/ FnReturn

\* the fix function of a script, called twice
SpecFn == InitFn /\ [][NextFn]_vars

(***************************************************************************)
(* Properties.                                                             *)
(***************************************************************************)
Last(sq) == sq[Len(sq)]

\* the j-th finished call of the fix function: its argument and what it returned
Argument(j) == calls[j][1]
Returned(j) == Last(calls[j])

\* two markers with nothing but whitespace between them
AdjacentMarkers(t) ==
    \E p \in 1..Len(t) :
        /\ OccursAt(t, p, MARKER)
        /\ \E q \in (p + Len(MARKER))..Len(t) :
              /\ OccursAt(t, q, MARKER)
              /\ \A r \in (p + Len(MARKER))..(q - 1) : t[r] \in WS

\* the statement of a fix function that removes a repeated marker
CleanupStep == IF script = ALL_SYNTAX THEN 4 ELSE 6

\* C1: fix_syntax_errors is idempotent: called on what it returned, it returns
\* the same text (a second run of the script on a fixed file changes nothing).
C1_SyntaxIdempotent ==
    (script = ALL_SYNTAX /\ Len(calls) = 2) => Returned(2) = Returned(1)

\* C2: fix_string_literals is idempotent: called on what it returned, it
\* returns the same text.
C2_LiteralsIdempotent ==
    (script = STRING_LITERALS /\ Len(calls) = 2) => Returned(2) = Returned(1)

\* C9: the text fix_syntax_errors or fix_all_patterns returns holds no two
\* markers separated by whitespace only, and the cleanup rule changes nothing
\* on a text that holds no such pair.
C9_NoRepeatedMarker ==
    script \in { ALL_SYNTAX, FINAL_SYNTAX } =>
        \A j \in 1..Len(calls) :
            /\ ~AdjacentMarkers(Returned(j))
            /\ ~AdjacentMarkers(calls[j][CleanupStep]) =>
                  calls[j][CleanupStep + 1] = calls[j][CleanupStep]

\* C7: on a text with no occurrence of "// ! HARDCODED" each of the three fix
\* functions returns its argument unchanged.
C7_CleanInputUnchanged ==
    \A j \in 1..Len(calls) :
        ~Contains(Argument(j), PREFIX) => Returned(j) = Argument(j)

\* a call of fix_syntax_errors on a text of several lines, with a property
\* and no marker, has returned
C7_Witness ==
    /\ script = ALL_SYNTAX
    /\ Len(calls) >= 1
    /\ ~Contains(Argument(1), PREFIX)
    /\ Contains(Argument(1), <<NL>>)
    /\ Contains(Argument(1), PropClean)

\* the line needs a comma by the words of the claim: it holds the marker and
\* its last character that is not whitespace is none of , { }
NeedsComma(line) ==
    /\ Contains(line, MARKER)
    /\ \E p \in 1..Len(line) :
          /\ line[p] \notin WS \cup { ",", "{", "}" }
          /\ \A q \in (p + 1)..Len(line) : line[q] \in WS

\* new is old with ", " put in right before every marker and nothing else changed
CommaInserted(old, new) ==
    LET at       == { p \in 1..Len(old) : OccursAt(old, p, MARKER) }
        shift(j) == 2 * Cardinality({ p \in at : p <= j })
    IN  /\ Len(new) = Len(old) + 2 * Cardinality(at)
        /\ \A j \in 1..Len(old) : new[j + shift(j)] = old[j]
        /\ \A p \in at : new[p + shift(p) - 2] = "," /\ new[p + shift(p) - 1] = SP

\* C10: the line-by-line pass of fix_syntax_errors keeps the number and order
\* of the lines, leaves a line unchanged unless it holds the marker and ends in
\* none of , { } and changes such a line only by ", " before every marker.
C10_LinePassFrame ==
    script = ALL_SYNTAX =>
        \A j \in 1..Len(calls) :
            LET before == Split(calls[j][NumSteps(ALL_SYNTAX)])
                after  == Split(Returned(j))
            IN  /\ Len(after) = Len(before)
                /\ \A n \in 1..Len(before) :
                      IF NeedsComma(before[n])
                      THEN CommaInserted(before[n], after[n])
                      ELSE after[n] = before[n]

\* the pass has run on a text with a line it changed and a line with the
\* marker it left alone
C10_Witness ==
    /\ script = ALL_SYNTAX
    /\ Len(calls) >= 1
    /\ LET before == Split(calls[1][NumSteps(ALL_SYNTAX)])
           after  == Split(Returned(1))
       IN  \E n, m \in 1..Len(before) :
              /\ after[n] # before[n]
              /\ Contains(before[m], MARKER)
              /\ after[m] = before[m]

\* this call of process_file has the result of its fix function
FunctionReturned == Len(trace) = NumSteps(script) + 1 /\ pc # "fix"

\* C3: the fix function runs its statements once each in the order written,
\* each on the text the one before left; what it returns is their composition
\* on the text read, and process_file goes on to write exactly when that
\* differs from the text read.
C3_RulesComposed ==
    /\ pc = "fix" =>
          /\ trace[1] = content
          /\ step = Len(trace)
          /\ fixed = Last(trace)
          /\ \A k \in 1..(Len(trace) - 1) : trace[k + 1] = Step(script, k, trace[k])
    /\ FunctionReturned => fixed = Fix(script, content)
    /\ pc = "open" => fixed # content
    /\ (pc = "ret" /\ retval) => fixed # content
    /\ (pc = "ret" /\ ~retval /\ ~raised) => fixed = content

\* process_file is about to write a text that two of the statements changed
C3_Witness ==
    /\ pc = "open"
    /\ \E k \in 1..Len(trace) : trace[k] # content /\ trace[k] # fixed

InCall == pc \in { "read", "fix", "open", "write", "except", "ret" }

\* C4: process_file opens the file for writing exactly when the transformed
\* text differs from the text read; until then the file is as it was; and it
\* returns True exactly when it has written the transformed text.
C4_WriteIffChanged ==
    /\ opened => fixed # content
    /\ (InCall /\ ~opened) => disk[filepath] = disk0[filepath]
    /\ (pc = "ret" /\ ~raised) => (opened <=> fixed # content)
    /\ pc = "ret" => (retval <=> (opened /\ ~raised /\ disk[filepath] = File(fixed)))

\* main is done: a file was rewritten and counted, an unchanged one was not
\* opened and not counted
C4_Witness ==
    /\ pc = "done"
    /\ \E j, k \in 1..Len(results) :
          /\ results[j].ret
          /\ disk[results[j].path] = File(Fix(script, disk0[results[j].path].data))
          /\ disk[results[j].path] # disk0[results[j].path]
          /\ ~results[k].ret /\ ~results[k].err
          /\ disk[results[k].path] = disk0[results[k].path]

\* C5: a file on disk holds its prior content or the complete transformed
\* text, in every state, also when the write fails.
C5_PriorOrComplete ==
    \A p \in Paths :
        \/ disk[p] = disk0[p]
        \/ disk[p] = File(Fix(script, disk0[p].data))

\* the files process_file is called on: fix_all_syntax.py skips a missing one
Processed == SelectSeq(files, LAMBDA p : script = ALL_SYNTAX => disk0[p].exists)

Finished ==
    /\ pc = "done"
    /\ visited = files
    /\ Len(results) = Len(Processed)
    /\ \A j \in 1..Len(results) :
          /\ results[j].path = Processed[j]
          /\ results[j].err => ~results[j].ret
    /\ fixed_count = Cardinality({ j \in 1..Len(results) : results[j].ret })

\* C6: whichever files fail, main takes every file of the list once, in
\* order, counts a failing file as not fixed, and ends with fixed_count the
\* number of files process_file returned True for.
C6_EveryFileTaken == <>[]Finished

\* main is done, after a file that failed and a later file that was fixed
C6_Witness ==
    /\ pc = "done"
    /\ \E j, k \in 1..Len(results) : j < k /\ results[j].err /\ results[k].ret

=============================================================================
